---- MODULE Spec2Model ----
(***************************************************************************)
(* A model of the document-analysis pipeline of src/app.py: the           *)
(* /api/analyze_house handler (intake, PDF rasterisation, asset           *)
(* registration, request assembly, the bounded inference call) and the    *)
(* extraction of the six-field verdict from the inference service's text. *)
(*                                                                         *)
(* A response text is a sequence of lexical tokens [t |-> kind, s |->     *)
(* text]; the regular expressions and json.loads of parse_openai_response *)
(* are computed on that sequence.                                         *)
(***************************************************************************)
EXTENDS Integers, Sequences, FiniteSets, TLC

VARIABLES
    \* ---- the pipeline (one entry per analysis call) ----
    files,          \* the uploaded items of the call, in upload order
    pc,             \* where the handler of the call stands
    idx,            \* 1-based index of the file the loop of analyze_house is at
    page,           \* pages of the current PDF already uploaded
    pdf_ids,        \* file_ids of convert_pdf_to_file_ids for the current PDF
    file_contents,  \* the list analyze_house collects
    input_content,  \* asset references of the inference request, after the instruction block
    call,           \* the worker thread's call to client.responses.create
    submits,        \* how many times make_openai_request was submitted to the executor
    timedOut,       \* future.result(timeout=90) raised TimeoutError
    returnedAt,     \* seconds after submission at which analyze_files_with_openai returned
    response,       \* the HTTP response of the call
    \* ---- shared by the calls of the host process ----
    loop,           \* the call whose handler the event loop is running (0: none)
    regCalls,       \* every client.files.create call issued, in order
    \* ---- parse_openai_response applied to one text ----
    response_text,
    json_str,
    loaded,
    parsed,
    phase

pipeVars == <<files, pc, idx, page, pdf_ids, file_contents, input_content, call,
              submits, timedOut, returnedAt, response, loop, regCalls>>
parseVars == <<response_text, json_str, loaded, parsed, phase>>
vars == <<pipeVars, submits, parseVars>>

----------------------------------------------------------------------------
(* Lexical tokens of a response text *)

Tok(t, s) == [t |-> t, s |-> s]
FENCE_JSON == Tok("fence_json", "<fence>json")
FENCE == Tok("fence", "<fence>")
WS == Tok("ws", " ")
LBRACE == Tok("lbrace", "{")
RBRACE == Tok("rbrace", "}")
LBRACK == Tok("lbrack", "[")
RBRACK == Tok("rbrack", "]")
COLON == Tok("colon", ":")
COMMA == Tok("comma", ",")
WORD == Tok("word", "prose")
Lit(s) == Tok("lit", s)
Num(s) == Tok("num", s)
Str(s) == Tok("str", s)

Min(S) == CHOOSE m \in S : \A n \in S : m <= n

\* the first position at or after i that holds no whitespace (Len + 1: none)
RECURSIVE SkipWs(_, _)
SkipWs(toks, i) ==
    IF i <= Len(toks) /\ toks[i].t = "ws" THEN SkipWs(toks, i + 1) ELSE i

----------------------------------------------------------------------------
(* json.loads on a token sequence.  Values: [t |-> "bool", b], [t |->     *)
(* "null"], [t |-> "num", s], [t |-> "str", s], [t |-> "list", items],    *)
(* [t |-> "dict", d] with d a function from the keys to values.           *)

JFail == [ok |-> FALSE]
JOk(v, n) == [ok |-> TRUE, val |-> v, next |-> n]
JBool(b) == [t |-> "bool", b |-> b]
JNull == [t |-> "null"]
JNum(s) == [t |-> "num", s |-> s]
JStr(s) == [t |-> "str", s |-> s]
JList(items) == [t |-> "list", items |-> items]
JDict(d) == [t |-> "dict", d |-> d]

\* a dict with key k set to v (a repeated key keeps the last value)
DictPut(d, k, v) == [x \in (DOMAIN d) \cup {k} |-> IF x = k THEN v ELSE d[x]]

RECURSIVE ParseValue(_, _), ParseItems(_, _, _), ParseMembers(_, _, _)

\* one JSON value starting at the first non-blank position at or after i
ParseValue(toks, i) ==
    LET j == SkipWs(toks, i) IN
    IF j > Len(toks) THEN JFail
    ELSE LET tk == toks[j] IN
         CASE tk.t = "lit" ->
                 IF tk.s = "true" THEN JOk(JBool(TRUE), j + 1)
                 ELSE IF tk.s = "false" THEN JOk(JBool(FALSE), j + 1)
                 ELSE IF tk.s = "null" THEN JOk(JNull, j + 1)
                 ELSE JFail
           [] tk.t = "num" -> JOk(JNum(tk.s), j + 1)
           [] tk.t = "str" -> JOk(JStr(tk.s), j + 1)
           [] tk.t = "lbrack" ->
                 LET k == SkipWs(toks, j + 1) IN
                 IF k <= Len(toks) /\ toks[k].t = "rbrack"
                 THEN JOk(JList(<<>>), k + 1)
                 ELSE ParseItems(toks, j + 1, <<>>)
           [] tk.t = "lbrace" ->
                 LET k == SkipWs(toks, j + 1) IN
                 IF k <= Len(toks) /\ toks[k].t = "rbrace"
                 THEN JOk(JDict(<<>>), k + 1)
                 ELSE ParseMembers(toks, j + 1, <<>>)
           [] OTHER -> JFail

\* the items of a list after "[" or ",": value, then "," or "]"
ParseItems(toks, i, acc) ==
    LET r == ParseValue(toks, i) IN
    IF ~r.ok THEN JFail
    ELSE LET k == SkipWs(toks, r.next) IN
         IF k > Len(toks) THEN JFail
         ELSE IF toks[k].t = "comma" THEN ParseItems(toks, k + 1, Append(acc, r.val))
         ELSE IF toks[k].t = "rbrack" THEN JOk(JList(Append(acc, r.val)), k + 1)
         ELSE JFail

\* the members of an object after "{" or ",": string, ":", value, then "," or "}"
ParseMembers(toks, i, acc) ==
    LET j == SkipWs(toks, i) IN
    IF j > Len(toks) \/ toks[j].t # "str" THEN JFail
    ELSE LET c == SkipWs(toks, j + 1) IN
         IF c > Len(toks) \/ toks[c].t # "colon" THEN JFail
         ELSE LET r == ParseValue(toks, c + 1) IN
              IF ~r.ok THEN JFail
              ELSE LET k == SkipWs(toks, r.next)
                       d == DictPut(acc, toks[j].s, r.val)
                   IN IF k > Len(toks) THEN JFail
                      ELSE IF toks[k].t = "comma" THEN ParseMembers(toks, k + 1, d)
                      ELSE IF toks[k].t = "rbrace" THEN JOk(JDict(d), k + 1)
                      ELSE JFail

\* json.loads(json_str): one value and nothing but blanks after it
Loads(toks) ==
    LET r == ParseValue(toks, 1) IN
    IF r.ok /\ SkipWs(toks, r.next) > Len(toks) THEN [ok |-> TRUE, val |-> r.val]
    ELSE JFail

----------------------------------------------------------------------------
(* The three ways parse_openai_response locates its candidate *)

NoMatch == [found |-> FALSE]
Match(toks) == [found |-> TRUE, toks |-> toks]

IsFenceStart(tk) == tk.t \in {"fence", "fence_json"}

\* positions k of a "}" that closes group 1 of the fenced pattern opened by "{" at j
FenceEnds(text, j) ==
    {k \in (j + 1)..Len(text) :
        /\ text[k].t = "rbrace"
        /\ LET m == SkipWs(text, k + 1) IN m <= Len(text) /\ IsFenceStart(text[m])}

\* the fenced pattern, <fence>json\s*(\{.*?\})\s*<fence> with re.DOTALL, matches at
\* position i (<fence> stands for three backquotes; the closing one also matches the
\* start of another <fence>json)
FencedMatchAt(text, i) ==
    /\ text[i].t = "fence_json"
    /\ LET j == SkipWs(text, i + 1) IN
       /\ j <= Len(text)
       /\ text[j].t = "lbrace"
       /\ FenceEnds(text, j) # {}

\* strategy 1: re.search of the fenced pattern, group(1)
FencedBlock(text) ==
    LET starts == {i \in 1..Len(text) : FencedMatchAt(text, i)} IN
    IF starts = {} THEN NoMatch
    ELSE LET i == Min(starts)
             j == SkipWs(text, i + 1)
         IN Match(SubSeq(text, j, Min(FenceEnds(text, j))))

\* the first brace after position i (0: none)
NextBrace(text, i) ==
    LET bs == {k \in (i + 1)..Len(text) : text[k].t \in {"lbrace", "rbrace"}} IN
    IF bs = {} THEN 0 ELSE Min(bs)

\* the inline pattern, \{[^{}]*"excessive_loan"[^{}]*\}, matches at position i
InlineMatchAt(text, i) ==
    /\ text[i].t = "lbrace"
    /\ LET k == NextBrace(text, i) IN
       /\ k # 0
       /\ text[k].t = "rbrace"
       /\ \E m \in (i + 1)..(k - 1) : text[m] = Str("excessive_loan")

\* strategy 2: re.search of the inline pattern, group(0)
InlineObject(text) ==
    LET starts == {i \in 1..Len(text) : InlineMatchAt(text, i)} IN
    IF starts = {} THEN NoMatch
    ELSE LET i == Min(starts) IN Match(SubSeq(text, i, NextBrace(text, i)))

RECURSIVE LStrip(_), RStrip(_)
LStrip(toks) ==
    IF toks # <<>> /\ Head(toks).t = "ws" THEN LStrip(Tail(toks)) ELSE toks
RStrip(toks) ==
    IF toks # <<>> /\ toks[Len(toks)].t = "ws"
    THEN RStrip(SubSeq(toks, 1, Len(toks) - 1)) ELSE toks

\* strategy 3: response_text.strip()
WholeText(text) == Match(RStrip(LStrip(text)))

----------------------------------------------------------------------------
(* parse_openai_response *)

required_keys == <<"excessive_loan", "rights_restriction", "trust_property",
                   "residential_use", "tax_delinquency", "owner_verification">>
RequiredKeys == {required_keys[i] : i \in 1..Len(required_keys)}

None == [ok |-> FALSE]
Some(v) == [ok |-> TRUE, val |-> v]

\* str.lower() on the strings that occur as values
Lower(s) ==
    CASE s \in {"True", "TRUE", "tRuE"} -> "true"
      [] s \in {"Yes", "YES"} -> "yes"
      [] s \in {"False", "FALSE"} -> "false"
      [] s \in {"No", "NO"} -> "no"
      [] s \in {"On", "ON"} -> "on"
      [] OTHER -> s

\* the candidate taken when an earlier one does not parse and a later one does
SelectCandidate_FirstParseable(text) ==
    LET cands == <<FencedBlock(text), InlineObject(text), WholeText(text)>>
        good == {i \in 1..3 : cands[i].found /\ Loads(cands[i].toks).ok}
    IN IF good # {} THEN cands[Min(good)].toks
       ELSE cands[Min({i \in 1..3 : cands[i].found})].toks

\* json_str: the fenced block if the fenced pattern matches, else the inline object
\* if the inline pattern matches, else the whole stripped text
SelectCandidate(text) ==
    IF FencedBlock(text).found THEN FencedBlock(text).toks
    ELSE IF InlineObject(text).found THEN InlineObject(text).toks
    ELSE WholeText(text).toks

\* a string value becomes a bool, every other value stays as json.loads gave it
NormalizeValue(v) ==
    IF v.t = "str" THEN JBool(Lower(v.s) \in {"true", "1", "yes"}) ELSE v

\* the loop over required_keys: result[key] is replaced only when it is a str
Normalize(d) ==
    [k \in DOMAIN d |-> IF k \in RequiredKeys THEN NormalizeValue(d[k]) ELSE d[k]]

\* What the function returns for the value json.loads gave.  A value that is not a
\* dict never comes back: "key in result" raises TypeError on a number, a bool or
\* None, is false for a list or a str that lacks a key, and when a list or a str holds
\* every key, result[key] raises TypeError; each way the function returns None.
ValidateLoaded(r) ==
    IF ~r.ok THEN None
    ELSE IF r.val.t # "dict" THEN None
    ELSE IF \A i \in 1..Len(required_keys) : required_keys[i] \in DOMAIN r.val.d
         THEN Some(Normalize(r.val.d))
         ELSE None

parse_openai_response(text) == ValidateLoaded(Loads(SelectCandidate(text)))

----------------------------------------------------------------------------
(* Response texts the extraction is applied to *)

\* the values an object member is given, as token sequences
ValueToks ==
    {<<Lit("true")>>, <<Lit("false")>>, <<Lit("null")>>,
     <<Num("1")>>, <<Num("0")>>, <<Num("5")>>,
     <<Str("true")>>, <<Str("TRUE")>>, <<Str("1")>>, <<Str("Yes")>>,
     <<Str("false")>>, <<Str("no")>>, <<Str("on")>>, <<Str("")>>,
     <<LBRACK, RBRACK>>, <<LBRACE, RBRACE>>, <<LBRACK, Num("1"), RBRACK>>}

RECURSIVE MemberToks(_, _)
\* "k1": v, "k2": v, ... for the keys ks, vals giving each key its value
MemberToks(ks, vals) ==
    IF ks = <<>> THEN <<>>
    ELSE <<Str(Head(ks)), COLON, WS>> \o vals[Head(ks)]
         \o (IF Len(ks) > 1 THEN <<COMMA, WS>> ELSE <<>>)
         \o MemberToks(Tail(ks), vals)

ObjToks(ks, vals) == <<LBRACE>> \o MemberToks(ks, vals) \o <<RBRACE>>

Without(ks, k) == SelectSeq(ks, LAMBDA x : x # k)

AllSame(v) == [k \in RequiredKeys |-> v]
\* excessive_loan ... owner_verification given six different encodings
Mixed ==
    [k \in RequiredKeys |->
        CASE k = "excessive_loan" -> <<Str("TRUE")>>
          [] k = "rights_restriction" -> <<Lit("false")>>
          [] k = "trust_property" -> <<Num("1")>>
          [] k = "residential_use" -> <<Str("nope")>>
          [] k = "tax_delinquency" -> <<Lit("null")>>
          [] OTHER -> <<Lit("true")>>]
AllTrueBut(k, v) == [x \in RequiredKeys |-> IF x = k THEN v ELSE <<Lit("true")>>]

Objects ==
    {ObjToks(required_keys, AllSame(v)) : v \in ValueToks}
    \cup {ObjToks(required_keys, Mixed)}
    \cup {ObjToks(Without(required_keys, k), AllSame(<<Lit("true")>>)) : k \in RequiredKeys}
    \cup {ObjToks(required_keys \o <<"excessive_loan">>, AllTrueBut("excessive_loan", <<Lit("false")>>)),
          ObjToks(required_keys \o <<"note">>, AllSame(<<Lit("true")>>) @@ ("note" :> <<Str("x")>>)),
          <<LBRACE, RBRACE>>}

GoodObject == ObjToks(required_keys, AllSame(<<Lit("true")>>))
OtherObject == ObjToks(required_keys, AllSame(<<Lit("false")>>))
\* a trailing comma: located by both patterns, rejected by json.loads
BrokenObject ==
    <<LBRACE>> \o MemberToks(required_keys, AllSame(<<Lit("true")>>)) \o <<COMMA, RBRACE>>

Fenced(o) == <<WORD, WS, FENCE_JSON, WS>> \o o \o <<WS, FENCE, WS, WORD>>
Inline(o) == <<WORD, WS>> \o o \o <<WS, WORD>>
Bare(o) == <<WS>> \o o \o <<WS>>

ResponseTexts ==
    {Fenced(o) : o \in Objects} \cup {Inline(o) : o \in Objects} \cup {Bare(o) : o \in Objects}
    \cup {<<>>, <<WORD>>, <<WORD, WS, WORD>>,
          <<Num("1")>>, <<Str("excessive_loan")>>, <<Lit("null")>>,
          <<LBRACK>> \o <<Str("excessive_loan"), COMMA, Str("rights_restriction"), COMMA,
                          Str("trust_property"), COMMA, Str("residential_use"), COMMA,
                          Str("tax_delinquency"), COMMA, Str("owner_verification")>> \o <<RBRACK>>,
          Fenced(BrokenObject), Inline(BrokenObject), Bare(BrokenObject),
          Fenced(BrokenObject) \o Inline(GoodObject),
          Fenced(<<LBRACE, WORD, RBRACE>>) \o <<WS>> \o GoodObject,
          Inline(BrokenObject) \o Inline(GoodObject),
          Fenced(GoodObject) \o Inline(OtherObject),
          Inline(OtherObject) \o Fenced(GoodObject),
          Fenced(OtherObject) \o Fenced(GoodObject),
          <<FENCE_JSON, WS>> \o GoodObject,
          <<FENCE_JSON, WS>> \o GoodObject \o <<FENCE_JSON, WS>> \o OtherObject \o <<FENCE>>,
          <<FENCE, WS>> \o GoodObject \o <<WS, FENCE>>,
          <<FENCE_JSON, WORD>> \o GoodObject \o <<FENCE>>,
          Fenced(<<LBRACE, Str("a"), COLON, LBRACE, RBRACE, RBRACE>>),
          Inline(<<LBRACE, Str("a"), COLON, Str("excessive_loan"), RBRACE>>),
          Inline(ObjToks(<<"verdict">>, ("verdict" :> GoodObject)))}

----------------------------------------------------------------------------
(* The extraction applied to one text *)

InitParse ==
    /\ response_text \in ResponseTexts
    /\ json_str = <<>>
    /\ loaded = None
    /\ parsed = None
    /\ phase = "text"

\* parse_openai_response(response_text), with the candidate it took and what
\* json.loads made of it
Parse ==
    /\ phase = "text"
    /\ json_str' = SelectCandidate(response_text)
    /\ loaded' = Loads(SelectCandidate(response_text))
    /\ parsed' = parse_openai_response(response_text)
    /\ phase' = "returned"
    /\ UNCHANGED response_text

----------------------------------------------------------------------------
(* Uploads *)

MaxFiles == 2
MaxPages == 2
TIMEOUT == 90

Calls == {1, 2}

Name(base, ext) == [base |-> base, ext |-> ext]
NoName == Name("", "")
Bytes(kind, pages) == [kind |-> kind, pages |-> pages]
Upload(filename, content) == [filename |-> filename, content |-> content]

\* str.lower() on the extensions that occur
LowerExt(ext) ==
    CASE ext = ".JPG" -> ".jpg"
      [] ext = ".PDF" -> ".pdf"
      [] ext = ".Png" -> ".png"
      [] OTHER -> ext

image_extensions == {".jpg", ".jpeg", ".png", ".bmp", ".webp", ".gif"}
is_image_file(filename) == LowerExt(filename.ext) \in image_extensions
is_pdf_file(filename) == LowerExt(filename.ext) = ".pdf"

\* the uploads a request is made of: images that decode and that do not, PDFs of
\* 0..MaxPages pages, a PDF that does not decode, an unsupported type, no filename
UploadItems ==
    {Upload(Name("deed", ".JPG"), Bytes("image", 0)),
     Upload(Name("tax", ".png"), Bytes("junk", 0)),
     Upload(Name("broken", ".pdf"), Bytes("junk", 0)),
     Upload(Name("report", ".docx"), Bytes("junk", 0)),
     Upload(NoName, Bytes("image", 0))}
    \cup {Upload(Name("registry", ".PDF"), Bytes("pdf", n)) : n \in 0..MaxPages}

RECURSIVE ListsUpTo(_)
ListsUpTo(n) ==
    IF n = 0 THEN {<<>>}
    ELSE LET shorter == ListsUpTo(n - 1) IN
         shorter \cup {Append(l, u) : l \in {x \in shorter : Len(x) = n - 1}, u \in UploadItems}

\* seconds the external call may take: within the deadline, and past it
Durations == {TIMEOUT - 60, TIMEOUT + 30}

\* the texts the inference service answers with in the pipeline
PipelineTexts ==
    {Fenced(GoodObject),
     Inline(ObjToks(required_keys, Mixed)),
     Bare(ObjToks(required_keys, AllSame(<<Num("1")>>))),
     Inline(ObjToks(required_keys, AllSame(<<Num("5")>>))),
     Bare(ObjToks(required_keys, AllSame(<<Str("Yes")>>))),
     Fenced(ObjToks(Without(required_keys, "tax_delinquency"), AllSame(<<Lit("true")>>))),
     <<WORD, WS, WORD>>,
     Fenced(BrokenObject) \o Inline(GoodObject)}

----------------------------------------------------------------------------
(* Responses *)

NoResponse == [status |-> 0]
Ok(body) == [status |-> 200, body |-> body]
Error(status, detail, filename) == [status |-> status, detail |-> detail, filename |-> filename]

\* the default result with owner_verification turned off
get_default_analysis_result_Flipped ==
    [k \in RequiredKeys |-> JBool(k = "residential_use")]

get_default_analysis_result ==
    [k \in RequiredKeys |-> JBool(k \in {"residential_use", "owner_verification"})]

\* the bool fields of AnalysisResponse take a bool, and 0 or 1 for a number
Coercible(v) == v.t = "bool" \/ (v.t = "num" /\ v.s \in {"0", "1"})
CoerceBool(v) == IF v.t = "bool" THEN v.b ELSE v.s = "1"

\* AnalysisResponse(**analysis_result), a ValidationError becoming the 500 of the
\* request boundary
AnalysisResponse(result) ==
    IF \A k \in RequiredKeys : Coercible(result[k])
    THEN Ok([k \in RequiredKeys |-> CoerceBool(result[k])])
    ELSE Error(500, "analysis_error", NoName)

\* what analyze_files_with_openai hands to analyze_house
Returned(result) == [raised |-> FALSE, val |-> result]
Raised == [raised |-> TRUE]

\* the result for a text: the parsed verdict, or the default when parsing gave None
ResultForText(text) ==
    LET parsed_result == parse_openai_response(text) IN
    IF parsed_result.ok THEN Returned(parsed_result.val)
    ELSE Returned(get_default_analysis_result)

\* the outer handler letting the fault through instead of substituting the default
ResultForException_Propagate == Raised

\* except Exception: the default result
ResultForException == Returned(get_default_analysis_result)

\* except TimeoutError: the default result
ResultForTimeout == Returned(get_default_analysis_result)

\* the try block around analyze_files_with_openai in analyze_house
RespondTo(outcome) ==
    IF outcome.raised THEN Error(500, "analysis_error", NoName)
    ELSE AnalysisResponse(outcome.val)

----------------------------------------------------------------------------
(* The handler of POST /api/analyze_house.  The handler is a coroutine with no   *)
(* await in it: from the moment the event loop starts it until it returns, the   *)
(* loop runs nothing else.                                                       *)

NoCall == [state |-> "none"]
InFlight == [state |-> "inflight"]

CurrentFile(r) == files[r][idx[r]]

\* one client.files.create call
RegCall(r, doc, pg, ok) ==
    [req |-> r, doc |-> doc, page |-> pg, ok |-> ok,
     id |-> IF ok THEN Len(regCalls) + 1 ELSE 0]

\* the handler returns: the response is sent and the event loop is free again
Finish(r, resp) ==
    /\ response' = [response EXCEPT ![r] = resp]
    /\ pc' = [pc EXCEPT ![r] = "done"]
    /\ loop' = 0

\* a request is received
Arrive(r, lists) ==
    /\ pc[r] = "absent"
    /\ \E fs \in lists : files' = [files EXCEPT ![r] = fs]
    /\ pc' = [pc EXCEPT ![r] = "queued"]
    /\ UNCHANGED <<idx, page, pdf_ids, file_contents, input_content, call, timedOut,
                   returnedAt, response, loop, regCalls, submits, parseVars>>

\* the event loop starts the handler: "if not files"
Begin(r) ==
    /\ pc[r] = "queued"
    /\ loop = 0
    /\ IF files[r] = <<>>
       THEN Finish(r, Error(400, "no_files", NoName))
       ELSE /\ pc' = [pc EXCEPT ![r] = "loop"]
            /\ loop' = r
            /\ UNCHANGED response
    /\ UNCHANGED <<files, idx, page, pdf_ids, file_contents, input_content, call,
                   timedOut, returnedAt, regCalls, submits, parseVars>>

AtFile(r) == pc[r] = "loop" /\ loop = r /\ idx[r] <= Len(files[r])

\* "if not file.filename"
RejectNoFilename(r) ==
    /\ AtFile(r)
    /\ CurrentFile(r).filename = NoName
    /\ Finish(r, Error(400, "no_filename", NoName))
    /\ UNCHANGED <<files, idx, page, pdf_ids, file_contents, input_content, call,
                   timedOut, returnedAt, regCalls, submits, parseVars>>

\* an unsupported file skipped, the loop going on with the next file
RejectUnsupported_Skip(r) ==
    /\ AtFile(r)
    /\ CurrentFile(r).filename # NoName
    /\ ~is_pdf_file(CurrentFile(r).filename)
    /\ ~is_image_file(CurrentFile(r).filename)
    /\ idx' = [idx EXCEPT ![r] = @ + 1]
    /\ UNCHANGED <<files, pc, page, pdf_ids, file_contents, input_content, call,
                   timedOut, returnedAt, response, loop, regCalls, submits, parseVars>>

\* the else branch: neither a PDF nor an image
RejectUnsupported(r) ==
    /\ AtFile(r)
    /\ CurrentFile(r).filename # NoName
    /\ ~is_pdf_file(CurrentFile(r).filename)
    /\ ~is_image_file(CurrentFile(r).filename)
    /\ Finish(r, Error(400, "unsupported", CurrentFile(r).filename))
    /\ UNCHANGED <<files, idx, page, pdf_ids, file_contents, input_content, call,
                   timedOut, returnedAt, regCalls, submits, parseVars>>

AtImage(r) ==
    /\ AtFile(r)
    /\ CurrentFile(r).filename # NoName
    /\ ~is_pdf_file(CurrentFile(r).filename)
    /\ is_image_file(CurrentFile(r).filename)

\* upload_file_to_openai: Image.verify fails, no upload is made
ImageInvalid(r) ==
    /\ AtImage(r)
    /\ CurrentFile(r).content.kind # "image"
    /\ Finish(r, Error(400, "image_failed", CurrentFile(r).filename))
    /\ UNCHANGED <<files, idx, page, pdf_ids, file_contents, input_content, call,
                   timedOut, returnedAt, regCalls, submits, parseVars>>

\* upload_file_to_openai: client.files.create returns a file id
ImageUploaded(r) ==
    /\ AtImage(r)
    /\ CurrentFile(r).content.kind = "image"
    /\ LET c == RegCall(r, idx[r], 0, TRUE) IN
       /\ regCalls' = Append(regCalls, c)
       /\ file_contents' = [file_contents EXCEPT ![r] =
              Append(@, [type |-> "file_id", filename |-> CurrentFile(r).filename,
                         content |-> <<c.id>>])]
    /\ idx' = [idx EXCEPT ![r] = @ + 1]
    /\ UNCHANGED <<files, pc, page, pdf_ids, input_content, call, timedOut, returnedAt,
                   response, loop, submits, parseVars>>

\* upload_file_to_openai: client.files.create raises
ImageUploadFails(r) ==
    /\ AtImage(r)
    /\ CurrentFile(r).content.kind = "image"
    /\ regCalls' = Append(regCalls, RegCall(r, idx[r], 0, FALSE))
    /\ Finish(r, Error(400, "image_failed", CurrentFile(r).filename))
    /\ UNCHANGED <<files, idx, page, pdf_ids, file_contents, input_content, call,
                   timedOut, returnedAt, submits, parseVars>>

AtPdf(r) ==
    /\ AtFile(r)
    /\ CurrentFile(r).filename # NoName
    /\ is_pdf_file(CurrentFile(r).filename)

\* convert_pdf_to_file_ids: convert_from_bytes raises
PdfConvertFails(r) ==
    /\ AtPdf(r)
    /\ CurrentFile(r).content.kind # "pdf"
    /\ Finish(r, Error(400, "pdf_failed", CurrentFile(r).filename))
    /\ UNCHANGED <<files, idx, page, pdf_ids, file_contents, input_content, call,
                   timedOut, returnedAt, regCalls, submits, parseVars>>

\* convert_pdf_to_file_ids: convert_from_bytes gives the pages
PdfConverted(r) ==
    /\ AtPdf(r)
    /\ CurrentFile(r).content.kind = "pdf"
    /\ pc' = [pc EXCEPT ![r] = "pdf_pages"]
    /\ page' = [page EXCEPT ![r] = 0]
    /\ pdf_ids' = [pdf_ids EXCEPT ![r] = <<>>]
    /\ UNCHANGED <<files, idx, file_contents, input_content, call, timedOut, returnedAt,
                   response, loop, regCalls, submits, parseVars>>

AtPage(r) ==
    pc[r] = "pdf_pages" /\ loop = r /\ page[r] < CurrentFile(r).content.pages

\* the loop of convert_pdf_to_file_ids: the next page is uploaded
PdfPageUploaded(r) ==
    /\ AtPage(r)
    /\ LET c == RegCall(r, idx[r], page[r] + 1, TRUE) IN
       /\ regCalls' = Append(regCalls, c)
       /\ pdf_ids' = [pdf_ids EXCEPT ![r] = Append(@, c.id)]
    /\ page' = [page EXCEPT ![r] = @ + 1]
    /\ UNCHANGED <<files, pc, idx, file_contents, input_content, call, timedOut,
                   returnedAt, response, loop, submits, parseVars>>

\* the loop of convert_pdf_to_file_ids: client.files.create raises
PdfPageUploadFails(r) ==
    /\ AtPage(r)
    /\ regCalls' = Append(regCalls, RegCall(r, idx[r], page[r] + 1, FALSE))
    /\ Finish(r, Error(400, "pdf_failed", CurrentFile(r).filename))
    /\ UNCHANGED <<files, idx, page, pdf_ids, file_contents, input_content, call,
                   timedOut, returnedAt, submits, parseVars>>

\* convert_pdf_to_file_ids returns file_ids and analyze_house appends the entry
PdfDone(r) ==
    /\ pc[r] = "pdf_pages"
    /\ loop = r
    /\ page[r] = CurrentFile(r).content.pages
    /\ file_contents' = [file_contents EXCEPT ![r] =
           Append(@, [type |-> "pdf_file_ids", filename |-> CurrentFile(r).filename,
                      content |-> pdf_ids[r]])]
    /\ idx' = [idx EXCEPT ![r] = @ + 1]
    /\ pc' = [pc EXCEPT ![r] = "loop"]
    /\ UNCHANGED <<files, page, pdf_ids, input_content, call, timedOut, returnedAt,
                   response, loop, regCalls, submits, parseVars>>

RECURSIVE Concat(_)
Concat(ss) == IF ss = <<>> THEN <<>> ELSE Head(ss) \o Concat(Tail(ss))

\* the image entries first, the PDF pages after them
BuildInputContent_ImagesFirst(contents) ==
    Concat([i \in 1..Len(contents) |->
               IF contents[i].type = "file_id" THEN contents[i].content ELSE <<>>])
    \o Concat([i \in 1..Len(contents) |->
               IF contents[i].type = "pdf_file_ids" THEN contents[i].content ELSE <<>>])

\* the input_image entries of input_content: one per file_id entry, one per file id
\* of a pdf_file_ids entry, in the order of file_contents
BuildInputContent(contents) ==
    Concat([i \in 1..Len(contents) |-> contents[i].content])

\* the loop is over: "if not file_contents", then analyze_files_with_openai builds
\* input_content and submits make_openai_request to the executor
Submit(r) ==
    /\ pc[r] = "loop"
    /\ loop = r
    /\ idx[r] > Len(files[r])
    /\ IF file_contents[r] = <<>>
       THEN /\ Finish(r, Error(400, "no_contents", NoName))
            /\ UNCHANGED <<input_content, call, submits>>
       ELSE /\ input_content' = [input_content EXCEPT ![r] = BuildInputContent(file_contents[r])]
            /\ call' = [call EXCEPT ![r] = InFlight]
            /\ submits' = [submits EXCEPT ![r] = @ + 1]
            /\ pc' = [pc EXCEPT ![r] = "waiting"]
            /\ UNCHANGED <<response, loop>>
    /\ UNCHANGED <<files, idx, page, pdf_ids, file_contents, timedOut, returnedAt,
                   regCalls, parseVars>>

\* when the external call may end: within the deadline while the handler has not
\* seen it expire, past it afterwards
EndTimes(r) == {d \in Durations : IF timedOut[r] THEN d > TIMEOUT ELSE d < TIMEOUT}

\* the worker thread: client.responses.create returns a response
CallReturns(r) ==
    /\ call[r] = InFlight
    /\ \E d \in EndTimes(r), text \in PipelineTexts :
           call' = [call EXCEPT ![r] = [state |-> "returned", at |-> d, text |-> text]]
    /\ UNCHANGED <<files, pc, idx, page, pdf_ids, file_contents, input_content, timedOut,
                   returnedAt, response, loop, regCalls, submits, parseVars>>

\* the worker thread: client.responses.create raises
CallRaises(r) ==
    /\ call[r] = InFlight
    /\ \E d \in EndTimes(r) :
           call' = [call EXCEPT ![r] = [state |-> "raised", at |-> d]]
    /\ UNCHANGED <<files, pc, idx, page, pdf_ids, file_contents, input_content, timedOut,
                   returnedAt, response, loop, regCalls, submits, parseVars>>

\* future.result(timeout=90) returns the response: the text is parsed
ResultInTime(r) ==
    /\ pc[r] = "waiting"
    /\ loop = r
    /\ call[r].state = "returned"
    /\ returnedAt' = [returnedAt EXCEPT ![r] = call[r].at]
    /\ Finish(r, RespondTo(ResultForText(call[r].text)))
    /\ UNCHANGED <<files, idx, page, pdf_ids, file_contents, input_content, call,
                   timedOut, regCalls, submits, parseVars>>

\* future.result(timeout=90) raises what the call raised
ExceptionInTime(r) ==
    /\ pc[r] = "waiting"
    /\ loop = r
    /\ call[r].state = "raised"
    /\ returnedAt' = [returnedAt EXCEPT ![r] = call[r].at]
    /\ Finish(r, RespondTo(ResultForException))
    /\ UNCHANGED <<files, idx, page, pdf_ids, file_contents, input_content, call,
                   timedOut, regCalls, submits, parseVars>>

\* the request submitted once more when the deadline expires
Deadline_Retry(r) ==
    /\ pc[r] = "waiting"
    /\ loop = r
    /\ call[r] = InFlight
    /\ submits[r] < 2
    /\ timedOut' = [timedOut EXCEPT ![r] = TRUE]
    /\ submits' = [submits EXCEPT ![r] = @ + 1]
    /\ UNCHANGED <<files, pc, idx, page, pdf_ids, file_contents, input_content, call,
                   returnedAt, response, loop, regCalls, parseVars>>

\* future.result(timeout=90) raises TimeoutError: the return statement leaves the
\* with block, whose exit is executor.shutdown(wait=True)
Deadline(r) ==
    /\ pc[r] = "waiting"
    /\ loop = r
    /\ call[r] = InFlight
    /\ timedOut' = [timedOut EXCEPT ![r] = TRUE]
    /\ pc' = [pc EXCEPT ![r] = "shutdown"]
    /\ UNCHANGED <<files, idx, page, pdf_ids, file_contents, input_content, call,
                   returnedAt, response, loop, regCalls, submits, parseVars>>

\* executor.shutdown(wait=True) joins the worker thread, which ends when the
\* external call does; then the default result is returned
ExecutorExit(r) ==
    /\ pc[r] = "shutdown"
    /\ loop = r
    /\ call[r] # InFlight
    /\ returnedAt' = [returnedAt EXCEPT ![r] = call[r].at]
    /\ Finish(r, RespondTo(ResultForTimeout))
    /\ UNCHANGED <<files, idx, page, pdf_ids, file_contents, input_content, call,
                   timedOut, regCalls, submits, parseVars>>

\* the steps of the handler of call r
HandlerStep(r) ==
    \/ Begin(r)
    \/ RejectNoFilename(r)
    \/ RejectUnsupported(r)
    \/ ImageInvalid(r)
    \/ ImageUploaded(r)
    \/ ImageUploadFails(r)
    \/ PdfConvertFails(r)
    \/ PdfConverted(r)
    \/ PdfPageUploaded(r)
    \/ PdfPageUploadFails(r)
    \/ PdfDone(r)
    \/ Submit(r)
    \/ ResultInTime(r)
    \/ ExceptionInTime(r)
    \/ Deadline(r)
    \/ ExecutorExit(r)

InitPipeline ==
    /\ files = [r \in Calls |-> <<>>]
    /\ pc = [r \in Calls |-> "absent"]
    /\ idx = [r \in Calls |-> 1]
    /\ page = [r \in Calls |-> 0]
    /\ pdf_ids = [r \in Calls |-> <<>>]
    /\ file_contents = [r \in Calls |-> <<>>]
    /\ input_content = [r \in Calls |-> <<>>]
    /\ call = [r \in Calls |-> NoCall]
    /\ submits = [r \in Calls |-> 0]
    /\ timedOut = [r \in Calls |-> FALSE]
    /\ returnedAt = [r \in Calls |-> 0]
    /\ response = [r \in Calls |-> NoResponse]
    /\ loop = 0
    /\ regCalls = <<>>

NoParse ==
    /\ response_text = <<>>
    /\ json_str = <<>>
    /\ loaded = None
    /\ parsed = None
    /\ phase = "idle"

----------------------------------------------------------------------------
(* Specifications *)

\* one analysis call
Init == InitPipeline /\ NoParse
Next ==
    \/ Arrive(1, ListsUpTo(MaxFiles))
    \/ HandlerStep(1)
    \/ CallReturns(1)
    \/ CallRaises(1)
Spec == Init /\ [][Next]_vars

\* two analysis calls in the host process, of at most one file each
NextHost ==
    \E r \in Calls :
        \/ Arrive(r, ListsUpTo(1))
        \/ HandlerStep(r)
        \/ CallReturns(r)
        \/ CallRaises(r)
SpecHost == Init /\ [][NextHost]_vars

\* parse_openai_response on every response text
InitExtract == InitPipeline /\ InitParse
NextExtract == Parse /\ UNCHANGED pipeVars
SpecExtract == InitExtract /\ [][NextExtract]_vars

----------------------------------------------------------------------------
(* Properties *)

\* the Fallback Verdict as the specification gives it
FallbackVerdict ==
    [excessive_loan |-> FALSE, rights_restriction |-> FALSE, trust_property |-> FALSE,
     residential_use |-> TRUE, tax_delinquency |-> FALSE, owner_verification |-> TRUE]

\* the registration calls of call r, in the order they were issued
RegOf(r) == SelectSeq(regCalls, LAMBDA c : c.req = r)
Assets(reg) == [i \in 1..Len(reg) |-> <<reg[i].doc, reg[i].page>>]

\* the visual assets of the i-th document: the image, or the pages of the PDF in order
VisualAssets(f, i) ==
    IF is_pdf_file(f.filename) THEN [p \in 1..f.content.pages |-> <<i, p>>]
    ELSE <<<<i, 0>>>>
ExpectedAssets(fs) == Concat([i \in 1..Len(fs) |-> VisualAssets(fs[i], i)])

Offending(f) ==
    \/ f.filename = NoName
    \/ ~is_pdf_file(f.filename) /\ ~is_image_file(f.filename)

Candidates(text) == <<FencedBlock(text), InlineObject(text), WholeText(text)>>
Yields(c) == c.found /\ Loads(c.toks).ok
YieldsObject(c) == Yields(c) /\ Loads(c.toks).val.t = "dict"
NoParseableObject(text) == \A i \in 1..3 : ~YieldsObject(Candidates(text)[i])
LacksKey(text) ==
    LET r == Loads(SelectCandidate(text)) IN
    r.ok /\ r.val.t = "dict" /\ ~(RequiredKeys \subseteq DOMAIN r.val.d)

\* C1: once the 90-second deadline has expired with the external call in flight, the
\* pipeline returns the Fallback Verdict without waiting for the call: the handler is
\* never held by the call after the deadline, and it has returned by the deadline
\* however long the call takes.
C1_AbandonedAtDeadline ==
    \A r \in Calls :
        /\ pc[r] = "shutdown" => ENABLED ExecutorExit(r)
        /\ pc[r] = "done" /\ timedOut[r] => returnedAt[r] <= TIMEOUT

\* C2: when every file passed intake and registration and the inference call timed
\* out, or its text holds no parseable object, or the parsed object lacks a required
\* key, the response is HTTP 200 with exactly the Fallback Verdict.
C2_FallbackOnFailure ==
    \A r \in Calls :
        (/\ pc[r] = "done"
         /\ call[r] # NoCall
         /\ \/ timedOut[r]
            \/ /\ call[r].state = "returned"
               /\ NoParseableObject(call[r].text) \/ LacksKey(call[r].text))
        => response[r] = Ok(FallbackVerdict)

\* a call answered in time with an object that lacks a key, and responded to
C2_Witness ==
    \E r \in Calls :
        /\ pc[r] = "done"
        /\ ~timedOut[r]
        /\ call[r].state = "returned"
        /\ LacksKey(call[r].text)
        /\ response[r].status = 200

\* what the claim says a value becomes
ClaimedBool(v) ==
    IF v.t = "bool" THEN v.b
    ELSE IF v.t = "str" THEN Lower(v.s) \in {"true", "1", "yes"}
    ELSE FALSE

\* C3: every verdict parse_openai_response returns holds the six keys with boolean
\* values: a boolean kept, a string true exactly when it is "true", "1" or "yes" in
\* any case, every other value (number, null, list, object) false.
C3_StrictBooleans ==
    (phase = "returned" /\ parsed.ok) =>
        \A k \in RequiredKeys :
            /\ k \in DOMAIN parsed.val
            /\ parsed.val[k] = JBool(ClaimedBool(loaded.val.d[k]))

\* C4 as claimed: the first strategy that yields a parseable value is the one used,
\* and extraction fails only if none of the three yields one.
C4_FirstParseableWins ==
    phase = "returned" =>
        LET cs == Candidates(response_text)
            good == {i \in 1..3 : Yields(cs[i])}
        IN /\ loaded.ok <=> good # {}
           /\ good # {} => json_str = cs[Min(good)].toks

\* C4 (amended): the candidate is the fenced block when the fenced pattern matches,
\* else the inline object when the inline pattern matches, else the whole stripped
\* text; only that candidate is parsed, and when it does not parse the extraction
\* fails, whatever a later strategy would have yielded.
C4_FirstLocatedOnly ==
    phase = "returned" =>
        LET cs == Candidates(response_text) IN
        /\ cs[1].found => json_str = cs[1].toks
        /\ ~cs[1].found /\ cs[2].found => json_str = cs[2].toks
        /\ ~cs[1].found /\ ~cs[2].found => json_str = cs[3].toks
        /\ loaded.ok <=> Loads(json_str).ok
        /\ ~loaded.ok => ~parsed.ok

\* a fenced block that does not parse, before an inline object that does: extraction failed
C4_Witness ==
    /\ phase = "returned"
    /\ Candidates(response_text)[1].found
    /\ ~Yields(Candidates(response_text)[1])
    /\ Yields(Candidates(response_text)[2])
    /\ ~parsed.ok

\* C5: when the external inference call raises, the response is HTTP 200 with exactly
\* the Fallback Verdict.
C5_FallbackOnUpstreamFault ==
    \A r \in Calls :
        (pc[r] = "done" /\ call[r].state = "raised") => response[r] = Ok(FallbackVerdict)

\* a call whose inference call raised within the deadline, and responded to
C5_Witness ==
    \E r \in Calls :
        pc[r] = "done" /\ call[r].state = "raised" /\ ~timedOut[r] /\ response[r].status = 200

\* C6 as claimed: a request with an item that has no filename or an unsupported
\* extension ends as a client error with no registration call made for any of its files.
C6_NoRegistrationAtAll ==
    \A r \in Calls :
        (pc[r] = "done" /\ \E i \in 1..Len(files[r]) : Offending(files[r][i]))
        => response[r].status = 400 /\ RegOf(r) = <<>>

\* C6 (amended): such a request ends as a client error (400) with no inference call;
\* no registration call is made for the offending file or any file after it, while
\* the files before it have been processed, their assets registered, when it is reached.
C6_NoRegistrationFromOffending ==
    \A r \in Calls :
        \A i \in 1..Len(files[r]) :
            Offending(files[r][i]) =>
                /\ call[r] = NoCall
                /\ \A j \in 1..Len(RegOf(r)) : RegOf(r)[j].doc < i
                /\ pc[r] = "done" => response[r].status = 400
                /\ (/\ pc[r] = "done"
                    /\ response[r].detail \in {"no_filename", "unsupported"}
                    /\ \A h \in 1..(i - 1) : ~Offending(files[r][h]))
                   => /\ Assets(RegOf(r)) = ExpectedAssets(SubSeq(files[r], 1, i - 1))
                      /\ \A j \in 1..Len(RegOf(r)) : RegOf(r)[j].ok

\* a request rejected for an unsupported second file after its first was registered
C6_Witness ==
    \E r \in Calls :
        /\ pc[r] = "done"
        /\ response[r].status = 400
        /\ response[r].detail = "unsupported"
        /\ RegOf(r) # <<>>

\* C7: a failed registration call aborts the request as a server error, with a status
\* other than the one of client-input errors, naming the file, and no inference call
\* is made.
C7_RegistrationFailureIsServerError ==
    \A r \in Calls :
        (pc[r] = "done" /\ RegOf(r) # <<>> /\ ~RegOf(r)[Len(RegOf(r))].ok)
        => /\ response[r].status \notin {200, 400}
           /\ response[r].filename = files[r][RegOf(r)[Len(RegOf(r))].doc].filename
           /\ call[r] = NoCall

\* C8: in a request that reaches the inference call, the asset references of the
\* inference request are, in count and order, the visual assets of the documents in
\* upload order (one per image, one per PDF page in page order), and the registration
\* calls were issued in that order.
C8_AssetOrder ==
    \A r \in Calls :
        call[r] # NoCall =>
            LET reg == RegOf(r) IN
            /\ \A j \in 1..Len(reg) : reg[j].ok
            /\ Assets(reg) = ExpectedAssets(files[r])
            /\ input_content[r] = [j \in 1..Len(reg) |-> reg[j].id]

\* an inference request for a two-page PDF followed by an image
C8_Witness ==
    \E r \in Calls :
        /\ call[r] # NoCall
        /\ Len(files[r]) = 2
        /\ is_pdf_file(files[r][1].filename)
        /\ is_image_file(files[r][2].filename)
        /\ Len(input_content[r]) = 3

\* C9: while one call waits on its external inference call, another call of the host
\* process that has been received can take a step of its own handler.
C9_ServedInParallel ==
    \A a \in Calls, b \in Calls :
        (/\ a # b
         /\ pc[a] \in {"waiting", "shutdown"}
         /\ call[a] = InFlight
         /\ pc[b] = "queued")
        => ENABLED HandlerStep(b)

\* C10: when the inference call is made, every uploaded document has at least one
\* registered asset in it.
C10_EveryDocumentHasAnAsset ==
    \A r \in Calls :
        call[r] # NoCall =>
            \A i \in 1..Len(files[r]) :
                \E j \in 1..Len(RegOf(r)) : RegOf(r)[j].doc = i /\ RegOf(r)[j].ok

\* no two registration calls of call r for the same visual asset
EachAssetOnce(reg) ==
    \A i \in 1..Len(reg), j \in 1..Len(reg) :
        (reg[i].doc = reg[j].doc /\ reg[i].page = reg[j].page) => i = j

\* C11: nothing is retried within one request: in every step, each visual asset has
\* been submitted to the asset store at most once, the inference call has been
\* submitted at most once (also after a timeout, an upstream failure or an extraction
\* failure), it is submitted only when every asset of the request has been registered
\* successfully, and no registration call is made once it has been submitted.
C11_NothingRetried ==
    [][\A r \in Calls :
          /\ submits'[r] <= 1
          /\ EachAssetOnce(RegOf(r)')
          /\ submits'[r] > submits[r] =>
                /\ \A j \in 1..Len(RegOf(r)) : RegOf(r)[j].ok
                /\ Assets(RegOf(r)) = ExpectedAssets(files[r])
          /\ submits[r] > 0 => RegOf(r)' = RegOf(r)]_vars

\* a request of two documents whose inference call timed out, and responded to
C11_Witness ==
    \E r \in Calls :
        /\ pc[r] = "done"
        /\ timedOut[r]
        /\ submits[r] = 1
        /\ Len(RegOf(r)) >= 2

====
